---- MODULE Spec2Model ----
(***************************************************************************)
(* A model of the numerical core of the integrated methane inversion       *)
(* example: prepare_sf (kf_scripts/prepare_sf.py) and the helpers of       *)
(* inversion_scripts/utils.py that it and the satellite operators use.     *)
(*                                                                         *)
(* Numbers are exact rationals [n, d] in lowest terms with d > 0.  The     *)
(* IEEE special values that numpy produces are kept: d = 0 stands for      *)
(* NaN (n = 0), +inf (n = 1) and -inf (n = -1).                            *)
(***************************************************************************)
EXTENDS Integers, Sequences, FiniteSets, TLC

----------------------------------------------------------------------------
(* Bounds of the model *)

\* number of grid cells of the (flattened lat x lon) inversion domain
NCells == 3
\* largest period_number prepare_sf is called with
MaxPeriod == 3
\* largest nBufferClusters of the config file
MaxBuffer == 2

Cells == 1..NCells

----------------------------------------------------------------------------
(* Exact arithmetic with NaN and infinities *)

Abs(x) == IF x < 0 THEN -x ELSE x

Sign(x) == IF x < 0 THEN -1 ELSE IF x > 0 THEN 1 ELSE 0

RECURSIVE GCD(_, _)
GCD(a, b) == IF b = 0 THEN a ELSE GCD(b, a % b)

NaN == [n |-> 0, d |-> 0]

Inf(s) == [n |-> s, d |-> 0]

\* the rational n/d in lowest terms (d # 0)
Rat(n, d) ==
    LET g == GCD(Abs(n), Abs(d))
    IN  [n |-> Sign(d) * (n \div g), d |-> Abs(d) \div g]

R(i) == [n |-> i, d |-> 1]

IsNaN(x) == x.d = 0 /\ x.n = 0

IsFinite(x) == x.d # 0

IsZero(x) == x.d # 0 /\ x.n = 0

\* float addition
Add(x, y) ==
    IF IsNaN(x) \/ IsNaN(y) THEN NaN
    ELSE IF ~IsFinite(x) /\ ~IsFinite(y) THEN (IF x.n = y.n THEN x ELSE NaN)
    ELSE IF ~IsFinite(x) THEN x
    ELSE IF ~IsFinite(y) THEN y
    ELSE LET g == GCD(x.d, y.d)
         IN  Rat(x.n * (y.d \div g) + y.n * (x.d \div g), (x.d \div g) * y.d)

\* float multiplication (0 * inf = NaN)
Mul(x, y) ==
    IF IsNaN(x) \/ IsNaN(y) THEN NaN
    ELSE IF ~IsFinite(x) \/ ~IsFinite(y)
         THEN (IF IsZero(x) \/ IsZero(y) THEN NaN ELSE Inf(Sign(x.n) * Sign(y.n)))
    ELSE IF x.n = 0 \/ y.n = 0 THEN R(0)
    ELSE LET g1 == GCD(Abs(x.n), y.d)
             g2 == GCD(Abs(y.n), x.d)
         IN  [n |-> (x.n \div g1) * (y.n \div g2), d |-> (x.d \div g2) * (y.d \div g1)]

Neg(x) == [n |-> -x.n, d |-> x.d]

Sub(x, y) == Add(x, Neg(y))

\* numpy array division: 0/0 = NaN, x/0 = +-inf, no exception
ArrDiv(x, y) ==
    IF IsNaN(x) \/ IsNaN(y) THEN NaN
    ELSE IF ~IsFinite(y) THEN (IF IsFinite(x) THEN R(0) ELSE NaN)
    ELSE IF ~IsFinite(x) THEN (IF y.n < 0 THEN Inf(-x.n) ELSE x)
    ELSE IF y.n = 0 THEN (IF x.n = 0 THEN NaN ELSE Inf(Sign(x.n)))
    ELSE Mul(x, Rat(y.d, y.n))

\* float comparison x <= y (False when either is NaN)
Le(x, y) ==
    IF IsNaN(x) \/ IsNaN(y) THEN FALSE
    ELSE IF ~IsFinite(x) THEN (x.n = -1 \/ x = y)
    ELSE IF ~IsFinite(y) THEN y.n = 1
    ELSE x.n * y.d <= y.n * x.d

\* int(x) of a finite float: truncation toward zero
IntTrunc(x) == Sign(x.n) * (Abs(x.n) \div x.d)

----------------------------------------------------------------------------
(* Gridded fields: one value per grid cell *)

FMul(f, g) == [c \in Cells |-> Mul(f[c], g[c])]

FAdd(f, g) == [c \in Cells |-> Add(f[c], g[c])]

FDiv(f, g) == [c \in Cells |-> ArrDiv(f[c], g[c])]

FScale(k, f) == [c \in Cells |-> Mul(k, f[c])]

\* a boolean field used in arithmetic: True is 1, False is 0
BoolNum(m) == [c \in Cells |-> IF m[c] THEN R(1) ELSE R(0)]

\* xarray's .sum() over all cells: NaN entries are skipped (skipna)
RECURSIVE XrSumTo(_, _)
XrSumTo(f, k) ==
    IF k = 0 THEN R(0)
    ELSE IF IsNaN(f[k]) THEN XrSumTo(f, k - 1)
    ELSE Add(XrSumTo(f, k - 1), f[k])

XrSum(f) == XrSumTo(f, NCells)

\* numpy.nanmax over the cells (at least one cell is not NaN)
RECURSIVE NanMaxTo(_, _)
NanMaxTo(f, k) ==
    IF k = 0 THEN NaN
    ELSE LET rest == NanMaxTo(f, k - 1)
         IN  IF IsNaN(f[k]) THEN rest
             ELSE IF IsNaN(rest) \/ Le(rest, f[k]) THEN f[k] ELSE rest

NanMax(f) == NanMaxTo(f, NCells)

----------------------------------------------------------------------------
(* utils.sum_total_emissions *)

s_per_d == 86400

d_per_y == 365

tg_per_kg == Rat(1, 1000000000)

\* s_per_d * d_per_y * tg_per_kg.  The code multiplies the sum by the three
\* factors one after the other; in exact arithmetic that is the product with
\* this single constant, which keeps the intermediate numerators small.
kg_per_s_to_Tg_per_y == Mul(Mul(R(s_per_d), R(d_per_y)), tg_per_kg)

sum_total_emissions_nomask(emissions, areas, mask) ==
    Mul(XrSum(FMul(emissions, areas)), kg_per_s_to_Tg_per_y)

sum_total_emissions(emissions, areas, mask) ==
    LET emissions_in_kg_per_s == FMul(FMul(emissions, areas), BoolNum(mask))
    IN  Mul(XrSum(emissions_in_kg_per_s), kg_per_s_to_Tg_per_y)

----------------------------------------------------------------------------
(* State *)

VARIABLES
    \* ---- prepare_sf: arguments and input files
    pc,                     \* position in prepare_sf
    period_number,          \* argument
    nudge_factor,           \* argument
    files,                  \* config, StateVector.nc, preview HEMCO diagnostics, unit_sf.nc
    \* ---- prepare_sf: locals
    areas, mask, last_ROI_element, original_emis, sf,
    hemco_list, p, posterior_p, sf_in,
    current_posterior_emis, nudged_posterior_emis,
    current_total, nudged_total, lambda_scaler, total_emis,
    \* ---- prepare_sf: effects
    reads,                  \* data files loaded so far, in order
    sf_hist,                \* sf after construction and after every update
    saved, archived,        \* ScaleFactors.nc and archive_sf/prior_sf_period{N}.nc
    \* ---- a call of utils.sum_total_emissions
    s_pc, s_emissions, s_areas, s_mask, s_factor, s_total, s_total_scaled,
    \* ---- a call of utils.filter_tropomi or utils.filter_blended
    f_pc, swath, indices,
    \* ---- a call of utils.filter_obs_with_mask or utils.count_obs_in_mask
    o_pc, obs_mask, df_in, df, df_filtered, n_obs

prepVars ==
    << pc, period_number, nudge_factor, files, areas, mask, last_ROI_element,
       original_emis, sf, hemco_list, p, posterior_p, sf_in,
       current_posterior_emis, nudged_posterior_emis, current_total,
       nudged_total, lambda_scaler, total_emis, reads, sf_hist, saved, archived >>

sumVars == << s_pc, s_emissions, s_areas, s_mask, s_factor, s_total, s_total_scaled >>

filterVars == << f_pc, swath, indices >>

obsVars == << o_pc, obs_mask, df_in, df, df_filtered, n_obs >>

vars == << prepVars, sumVars, filterVars, obsVars >>

Unset == << >>

----------------------------------------------------------------------------
(* Inputs of prepare_sf *)

\* state vector labels: elements are numbered 1, 2, ... without gaps; cells
\* outside the domain carry NaN
LabelLayouts ==
    { [c \in Cells |-> R(c)],
      [c \in Cells |-> IF c = 1 THEN NaN ELSE R(c - 1)],
      [c \in Cells |-> R((c + 1) \div 2)] }

AreaFields == { [c \in Cells |-> R(1)], [c \in Cells |-> R(c)] }

\* EmisCH4_Total of a HEMCO diagnostics file; emissions may be zero in a cell
EmisFields ==
    { [c \in Cells |-> R(1)],
      [c \in Cells |-> R(c - 1)],
      [c \in Cells |-> IF c % 2 = 1 THEN R(2) ELSE R(1)] }

\* ScaleFactor of a gridded_posterior.nc
PostFields ==
    { [c \in Cells |-> IF c = 1 THEN R(2) ELSE Rat(1, 2)],
      [c \in Cells |-> IF c % 2 = 0 THEN R(3) ELSE R(1)] }

UnitSF == [c \in Cells |-> R(1)]

\* nudge_factor.  A fractional weight squares the size of the numerators and
\* denominators of the scale factors with every update, and a third such
\* update no longer fits 32-bit integers; the weights 0 and 1 are followed
\* through every period.
NudgeFactors(n) ==
    IF n <= 3 THEN { R(0), Rat(1, 10), R(1) } ELSE { R(0), R(1) }

\* a file of the prior simulation's OutputDir: its name contains "HEMCO" or
\* not, and HEMCO file names differ in their date stamp only
PriorCacheFiles ==
    { [hemco |-> TRUE, stamp |-> k] : k \in 1..(MaxPeriod - 1) }
        \cup { [hemco |-> FALSE, stamp |-> 0] }

\* os.listdir returns the names in arbitrary order
Listings ==
    { l \in [1..Cardinality(PriorCacheFiles) -> PriorCacheFiles] :
        \A i, j \in DOMAIN l : l[i] = l[j] => i = j }

----------------------------------------------------------------------------
(* prepare_sf *)

\* [f for f in os.listdir(prior_cache) if "HEMCO" in f]
HemcoOnly(l) == SelectSeq(l, LAMBDA f : f.hemco)

RECURSIVE Insert(_, _)
Insert(srt, f) ==
    IF srt = << >> THEN << f >>
    ELSE IF f.stamp < Head(srt).stamp THEN << f >> \o srt
    ELSE << Head(srt) >> \o Insert(Tail(srt), f)

RECURSIVE SortList(_)
SortList(l) == IF l = << >> THEN << >> ELSE Insert(SortList(Tail(l)), Head(l))

HemcoListUnsorted(listing) == HemcoOnly(listing)

\* hemco_list after hemco_list.sort()
HemcoList(listing) == SortList(HemcoOnly(listing))

LastROIElementPlus(labels, nBufferClusters) ==
    IntTrunc(Add(NanMax(labels), R(nBufferClusters)))

\* int(np.nanmax(state_vector_labels.values) - config["nBufferClusters"])
LastROIElement(labels, nBufferClusters) ==
    IntTrunc(Sub(NanMax(labels), R(nBufferClusters)))

\* state_vector_labels <= last_ROI_element
ROIMask(labels, last) == [c \in Cells |-> Le(labels[c], R(last))]

\* nudge_factor * original_emis + (1 - nudge_factor) * current_posterior_emis
NudgedPosteriorEmis(nf, orig, cur) ==
    FAdd(FScale(nf, orig), FScale(Sub(R(1), nf), cur))

LambdaInverted(cur_total, nud_total) == ArrDiv(nud_total, cur_total)

\* current_total / nudged_total of two Python floats (nudged_total # 0)
LambdaScaler(cur_total, nud_total) == ArrDiv(cur_total, nud_total)

\* range(period_number - 1)
LoopCount(n) == n - 1

SavedEmissions(scale, orig) == FMul(scale, orig)

\* what sf.to_netcdf writes
SavedScaleFactors(scale, orig) == scale

Read(file, id) == [file |-> file, id |-> id]

PrepInit ==
    /\ pc = "start"
    /\ period_number \in 1..MaxPeriod
    /\ nudge_factor \in NudgeFactors(period_number)
    /\ files \in [ nBufferClusters : 0..MaxBuffer,
                   StateVector : LabelLayouts,
                   AREA : AreaFields,
                   EmisCH4_Total : EmisFields,
                   unit_sf : {UnitSF} ]
    /\ areas = Unset /\ mask = Unset /\ last_ROI_element = 0
    /\ original_emis = Unset /\ sf = Unset
    /\ hemco_list = << >> /\ p = 0 /\ posterior_p = Unset /\ sf_in = Unset
    /\ current_posterior_emis = Unset /\ nudged_posterior_emis = Unset
    /\ current_total = NaN /\ nudged_total = NaN /\ lambda_scaler = NaN
    /\ total_emis = NaN
    /\ reads = << >> /\ sf_hist = << >>
    /\ saved = Unset /\ archived = Unset

\* lines 26-61: load the inputs, build the mask, start from the unit scale factors
Setup ==
    /\ pc = "start"
    /\ areas' = files.AREA
    /\ last_ROI_element' = LastROIElement(files.StateVector, files.nBufferClusters)
    /\ mask' = ROIMask(files.StateVector, last_ROI_element')
    /\ original_emis' = files.EmisCH4_Total
    /\ sf' = files.unit_sf
    /\ sf_hist' = << files.unit_sf >>
    /\ reads' = << Read("StateVector", 0), Read("preview_diags", 0),
                   Read("unit_sf", 0) >>
    /\ pc' = IF period_number > 1 THEN "list" ELSE "finish"
    /\ UNCHANGED << period_number, nudge_factor, files, hemco_list, p,
                    posterior_p, sf_in, current_posterior_emis,
                    nudged_posterior_emis, current_total, nudged_total,
                    lambda_scaler, total_emis, saved, archived,
                    sumVars, filterVars, obsVars >>

\* lines 63-65: list and sort the HEMCO files of the prior simulation
ListHemco ==
    /\ pc = "list"
    /\ \E listing \in Listings : hemco_list' = HemcoList(listing)
    /\ pc' = IF p < LoopCount(period_number) THEN "loop" ELSE "finish"
    /\ UNCHANGED << period_number, nudge_factor, files, areas, mask,
                    last_ROI_element, original_emis, sf, p, posterior_p, sf_in,
                    current_posterior_emis, nudged_posterior_emis,
                    current_total, nudged_total, lambda_scaler, total_emis,
                    reads, sf_hist, saved, archived,
                    sumVars, filterVars, obsVars >>

\* lines 68-102: one iteration of the loop over the previous periods
UpdatePeriod ==
    /\ pc = "loop"
    /\ \E hemco_emis \in EmisFields, posterior \in PostFields :
        LET q == p + 1
            cur == FMul(FMul(posterior, sf), hemco_emis)
            nud == NudgedPosteriorEmis(nudge_factor, hemco_emis, cur)
            ct == sum_total_emissions(cur, areas, mask)
            nt == sum_total_emissions(nud, areas, mask)
            lam == LambdaScaler(ct, nt)
            new == FDiv(FScale(lam, nud), hemco_emis)
        IN  /\ p' = q
            /\ original_emis' = hemco_emis
            /\ posterior_p' = posterior
            /\ reads' = reads \o << Read("prior_hemco", hemco_list[q].stamp),
                                    Read("gridded_posterior", q) >>
            /\ sf_in' = sf
            /\ current_posterior_emis' = cur
            /\ nudged_posterior_emis' = nud
            /\ current_total' = ct
            /\ nudged_total' = nt
            /\ IF IsZero(nt)
               THEN \* ZeroDivisionError: float division by zero
                    /\ pc' = "ZeroDivisionError"
                    /\ UNCHANGED << lambda_scaler, sf, sf_hist >>
               ELSE /\ lambda_scaler' = lam
                    /\ sf' = new
                    /\ sf_hist' = Append(sf_hist, new)
                    /\ pc' = IF q < LoopCount(period_number) THEN "loop" ELSE "finish"
    /\ UNCHANGED << period_number, nudge_factor, files, areas, mask,
                    last_ROI_element, hemco_list, total_emis, saved, archived,
                    sumVars, filterVars, obsVars >>

\* lines 112-130: report the total prior emission and write the scale factors
Finish ==
    /\ pc = "finish"
    /\ total_emis' = sum_total_emissions(FMul(sf, original_emis), areas, mask)
    /\ saved' = SavedScaleFactors(sf, original_emis)
    /\ archived' = [period |-> period_number,
                    sf |-> SavedScaleFactors(sf, original_emis)]
    /\ pc' = "done"
    /\ UNCHANGED << period_number, nudge_factor, files, areas, mask,
                    last_ROI_element, original_emis, sf, hemco_list, p,
                    posterior_p, sf_in, current_posterior_emis,
                    nudged_posterior_emis, current_total, nudged_total,
                    lambda_scaler, reads, sf_hist,
                    sumVars, filterVars, obsVars >>

PrepIdle ==
    /\ pc = "idle" /\ period_number = 0 /\ nudge_factor = NaN /\ files = Unset
    /\ areas = Unset /\ mask = Unset /\ last_ROI_element = 0
    /\ original_emis = Unset /\ sf = Unset
    /\ hemco_list = << >> /\ p = 0 /\ posterior_p = Unset /\ sf_in = Unset
    /\ current_posterior_emis = Unset /\ nudged_posterior_emis = Unset
    /\ current_total = NaN /\ nudged_total = NaN /\ lambda_scaler = NaN
    /\ total_emis = NaN
    /\ reads = << >> /\ sf_hist = << >>
    /\ saved = Unset /\ archived = Unset

SumIdle ==
    /\ s_pc = "idle" /\ s_emissions = Unset /\ s_areas = Unset /\ s_mask = Unset
    /\ s_factor = NaN /\ s_total = NaN /\ s_total_scaled = NaN

FilterIdle == f_pc = "idle" /\ swath = << >> /\ indices = << >>

ObsIdle ==
    /\ o_pc = "idle" /\ obs_mask = Unset /\ df_in = << >> /\ df = << >>
    /\ df_filtered = << >> /\ n_obs = 0

\* a run of prepare_sf
Init == PrepInit /\ SumIdle /\ FilterIdle /\ ObsIdle

Next == Setup \/ ListHemco \/ UpdatePeriod \/ Finish

Spec == Init /\ [][Next]_vars

----------------------------------------------------------------------------
(* Properties of prepare_sf *)

\* at least one update of the loop has completed (no exception)
UpdateDone == p >= 1 /\ pc \in {"loop", "finish", "done"}

Written == pc = "done"

\* C1: every per-period update conserves the total emissions of the region of
\* interest: when nudged_total is non-zero and original_emis is non-zero in
\* every cell, the ROI total of new sf * original_emis equals the ROI total of
\* current_posterior_emis = posterior_p * previous sf * original_emis.
C1_UpdateConservesROITotal ==
    (/\ UpdateDone
     /\ ~IsZero(nudged_total)
     /\ \A c \in Cells : ~IsZero(original_emis[c]))
    => sum_total_emissions(FMul(sf, original_emis), areas, mask)
         = sum_total_emissions(FMul(FMul(posterior_p, sf_in), original_emis),
                               areas, mask)

\* a second update that nudges and rescales by a factor other than 1
C1_Witness ==
    /\ UpdateDone /\ p >= 2
    /\ \A c \in Cells : ~IsZero(original_emis[c])
    /\ nudge_factor = Rat(1, 10)
    /\ lambda_scaler # R(1)
    /\ \E c \in Cells : mask[c] /\ sf[c] # Mul(posterior_p[c], sf_in[c])
    /\ \E c \in Cells : ~mask[c]

\* C2: with period_number = 1 the scale factors written are the unit scale
\* factors of unit_sf.nc, unchanged in every cell; no gridded posterior and no
\* HEMCO file of the prior simulation is read, nothing is nudged or rescaled.
C2_FirstPeriodWritesUnitSF ==
    (Written /\ period_number = 1)
    => /\ \A c \in Cells : saved[c] = files.unit_sf[c]
       /\ archived = [period |-> 1, sf |-> files.unit_sf]
       /\ \A i \in DOMAIN reads :
            reads[i].file \notin {"prior_hemco", "gridded_posterior"}
       /\ p = 0 /\ sf_hist = << files.unit_sf >>
       /\ nudged_posterior_emis = Unset /\ lambda_scaler = NaN

C2_Witness ==
    /\ Written /\ period_number = 1
    /\ \E c \in Cells : files.EmisCH4_Total[c] # R(1)
    /\ nudge_factor = R(1)

\* the k-th HEMCO file of the prior simulation in sorted order: exactly k - 1
\* HEMCO files have a smaller name
KthHemcoFile(k) ==
    CHOOSE f \in PriorCacheFiles :
        /\ f.hemco
        /\ Cardinality({ g \in PriorCacheFiles : g.hemco /\ g.stamp < f.stamp }) = k - 1

\* the data files update k loads, in order
UpdateReads(k) ==
    << Read("prior_hemco", KthHemcoFile(k).stamp), Read("gridded_posterior", k) >>

RECURSIVE ReadsUpTo(_)
ReadsUpTo(k) == IF k = 0 THEN << >> ELSE ReadsUpTo(k - 1) \o UpdateReads(k)

\* C3: for period_number = N > 1 exactly N - 1 updates are applied, in the
\* order p = 1, ..., N - 1, starting from the unit scale factors; update p
\* loads the gridded posterior of period p and the p-th file of the sorted
\* HEMCO list and takes the scale factors update p - 1 produced, so what is
\* written depends on the posteriors of periods 1..N-1 and no later one.
C3_SequentialUpdates ==
    /\ pc \notin {"start"} =>
        /\ SubSeq(reads, 4, Len(reads)) = ReadsUpTo(p)
        /\ p <= period_number - 1 \/ p = 0
    /\ (pc \in {"list", "loop", "finish", "done"}) =>
        /\ Len(sf_hist) = p + 1
        /\ sf_hist[1] = files.unit_sf
        /\ sf = sf_hist[p + 1]
        /\ p >= 1 => sf_in = sf_hist[p]
    /\ (pc \in {"finish", "done"} /\ period_number > 1) =>
        /\ p = period_number - 1
        /\ { reads[i].id : i \in { j \in DOMAIN reads :
                                     reads[j].file = "gridded_posterior" } }
             = 1..(period_number - 1)
    /\ Written => saved = sf_hist[Len(sf_hist)]

C3_Witness ==
    /\ Written /\ period_number = MaxPeriod /\ p = MaxPeriod - 1
    /\ sf_hist[p + 1] # sf_hist[p] /\ sf_hist[p] # sf_hist[1]

\* C4 (as claimed): nudge_factor weights the original prior:
\* nudged_posterior_emis = nudge_factor * original_emis + (1 - nudge_factor) *
\* current_posterior_emis, new sf = lambda_scaler * nudged_posterior_emis /
\* original_emis with lambda_scaler = current_total / nudged_total; so with
\* nudge_factor = 0 the new sf is posterior_p * previous sf in every cell and
\* with nudge_factor = 1 every cell gets lambda_scaler.
C4_NudgeWeightsOriginalPrior ==
    UpdateDone =>
        /\ \A c \in Cells :
            /\ nudged_posterior_emis[c]
                 = Add(Mul(nudge_factor, original_emis[c]),
                       Mul(Sub(R(1), nudge_factor), current_posterior_emis[c]))
            /\ sf[c] = ArrDiv(Mul(lambda_scaler, nudged_posterior_emis[c]),
                              original_emis[c])
        /\ lambda_scaler = ArrDiv(current_total, nudged_total)
        /\ nudge_factor = R(0) =>
             \A c \in Cells : sf[c] = Mul(posterior_p[c], sf_in[c])
        /\ nudge_factor = R(1) =>
             \A c \in Cells : sf[c] = lambda_scaler

\* the labels of the state vector elements present on the grid
Elements == { IntTrunc(files.StateVector[c]) :
                c \in { k \in Cells : ~IsNaN(files.StateVector[k]) } }

\* the nBufferClusters highest-numbered elements
BufferElements ==
    { e \in Elements :
        Cardinality({ h \in Elements : h > e }) < files.nBufferClusters }

MaxElement == CHOOSE m \in Elements : \A e \in Elements : e <= m

ROICells ==
    { c \in Cells : /\ ~IsNaN(files.StateVector[c])
                    /\ IntTrunc(files.StateVector[c])
                         <= MaxElement - files.nBufferClusters }

\* the sum of emis * areas over the cells of S that hold a number
RECURSIVE SumOver(_, _, _)
SumOver(S, emis, ar) ==
    IF S = {} THEN R(0)
    ELSE LET c == CHOOSE x \in S : TRUE
             rest == SumOver(S \ {c}, emis, ar)
             e == Mul(emis[c], ar[c])
         IN  IF IsNaN(e) THEN rest ELSE Add(rest, e)

\* the area-weighted total of the cells of S, in Tg/y
TotalOver(S, emis) ==
    Mul(SumOver(S, emis, areas), Rat(s_per_d * d_per_y, 1000000000))

\* C5: the mask selects exactly the cells whose label is <= maximum label -
\* nBufferClusters, so the cells of the nBufferClusters highest-numbered
\* elements are excluded and contribute nothing to current_total,
\* nudged_total or the reported total prior emission.
C5_MaskExcludesBufferCells ==
    pc # "start" =>
        /\ \A c \in Cells : mask[c] <=> c \in ROICells
        /\ \A c \in Cells :
             (/\ ~IsNaN(files.StateVector[c])
              /\ IntTrunc(files.StateVector[c]) \in BufferElements) => ~mask[c]
        /\ p >= 1 =>
             /\ current_total = TotalOver(ROICells, current_posterior_emis)
             /\ nudged_total = TotalOver(ROICells, nudged_posterior_emis)
        /\ Written => total_emis = TotalOver(ROICells, FMul(sf, original_emis))

\* a run in which a buffer cell and a cell without label carry emissions
C5_Witness ==
    /\ Written /\ p >= 1
    /\ files.nBufferClusters >= 1
    /\ \E c \in Cells : mask[c]
    /\ \E c \in Cells : /\ ~mask[c] /\ ~IsNaN(files.StateVector[c])
                        /\ ~IsZero(FMul(sf, original_emis)[c])
                        /\ ~IsNaN(FMul(sf, original_emis)[c])
    /\ \E c \in Cells : IsNaN(files.StateVector[c])

----------------------------------------------------------------------------
(* A call of sum_total_emissions on a field and on a multiple of it *)

SumEmisFields == [Cells -> { R(0), Rat(1, 2), R(2) }]

SumMasks == [Cells -> BOOLEAN]

SumFactors == { R(0), Rat(1, 2), R(3), R(-1) }

SumInit ==
    /\ s_pc = "start"
    /\ s_emissions \in SumEmisFields
    /\ s_areas \in AreaFields
    /\ s_mask \in SumMasks
    /\ s_factor \in SumFactors
    /\ s_total = NaN /\ s_total_scaled = NaN

SumTotal ==
    /\ s_pc = "start"
    /\ s_total' = sum_total_emissions(s_emissions, s_areas, s_mask)
    /\ s_total_scaled' =
         sum_total_emissions(FScale(s_factor, s_emissions), s_areas, s_mask)
    /\ s_pc' = "done"
    /\ UNCHANGED << s_emissions, s_areas, s_mask, s_factor,
                    prepVars, filterVars, obsVars >>

InitSum == PrepIdle /\ SumInit /\ FilterIdle /\ ObsIdle

NextSum == SumTotal

SpecSum == InitSum /\ [][NextSum]_vars

\* C6: sum_total_emissions returns the sum over all cells of emissions *
\* areas * mask times 86400 * 365 * 1e-9 = 0.031536; cells where the mask is
\* False contribute nothing, and the result is linear in the emissions.
C6_AreaWeightedMaskedTotal ==
    s_pc = "done" =>
        /\ s_total = Mul(SumOver({ c \in Cells : s_mask[c] }, s_emissions, s_areas),
                         Rat(31536, 1000000))
        /\ \A v \in { R(0), R(5) } :
             s_total = sum_total_emissions(
                         [c \in Cells |-> IF s_mask[c] THEN s_emissions[c] ELSE v],
                         s_areas, s_mask)
        /\ s_total_scaled = Mul(s_factor, s_total)

C6_Witness ==
    /\ s_pc = "done"
    /\ \E c \in Cells : ~s_mask[c] /\ ~IsZero(s_emissions[c])
    /\ \E c, e \in Cells : /\ c # e /\ s_mask[c] /\ s_mask[e]
                           /\ s_areas[c] # s_areas[e]
                           /\ ~IsZero(s_emissions[c]) /\ ~IsZero(s_emissions[e])
    /\ s_factor = R(3)
    /\ s_total_scaled # s_total

----------------------------------------------------------------------------
(* filter_tropomi and filter_blended *)

\* longest swath
MaxPixels == 2

\* the arguments of the filters
xlim == << 0, 10 >>

ylim == << 20, 30 >>

startdate == 100

enddate == 200

\* a pixel that passes every criterion of both filters
GoodPixel ==
    [ longitude |-> 5, latitude |-> 25, time |-> 150, qa_value |-> R(1),
      longitude_bounds |-> << 4, 4, 6, 6 >>,
      surface_classification |-> 0, chi_square_SWIR |-> 100 ]

\* the pixels that differ from GoodPixel in one field, and inland water pixels
\* on both sides of the chi-square limit
Pixels ==
    { GoodPixel }
    \cup { [GoodPixel EXCEPT !.longitude = v] : v \in { -1, 0, 10, 11 } }
    \cup { [GoodPixel EXCEPT !.latitude = v] : v \in { 19, 20, 30, 31 } }
    \cup { [GoodPixel EXCEPT !.time = v] : v \in { 99, 100, 200, 201 } }
    \cup { [GoodPixel EXCEPT !.qa_value = v] : v \in { Rat(2, 5), Rat(1, 2), Rat(3, 5) } }
    \cup { [GoodPixel EXCEPT !.longitude_bounds = v] :
             v \in { << 0, 99, 0, 99 >>, << 0, 0, 100, 100 >>, << -179, 179, 179, -179 >> } }
    \cup { [GoodPixel EXCEPT !.surface_classification = v] : v \in { 1, 2, 3 } }
    \cup { [GoodPixel EXCEPT !.chi_square_SWIR = v] : v \in { 20001 } }
    \cup { [GoodPixel EXCEPT !.surface_classification = 2, !.chi_square_SWIR = v] :
             v \in { 20000, 20001 } }

Swaths == UNION { [1..n -> Pixels] : n \in 1..MaxPixels }

RECURSIVE MaxOf(_)
MaxOf(t) ==
    IF Len(t) = 1 THEN t[1]
    ELSE LET m == MaxOf(Tail(t)) IN IF t[1] > m THEN t[1] ELSE m

RECURSIVE MinOf(_)
MinOf(t) ==
    IF Len(t) = 1 THEN t[1]
    ELSE LET m == MinOf(Tail(t)) IN IF t[1] < m THEN t[1] ELSE m

\* numpy's ptp over the corner axis: maximum - minimum
Ptp(t) == MaxOf(t) - MinOf(t)

AntimeridianSpread == 100

ChiSquareLimit == 20000

Coastal == 3

InlandWater == 2

QaThreshold == Rat(1, 2)

\* the bounds tests both filters share
InBounds(px) ==
    /\ px.longitude > xlim[1]
    /\ px.longitude < xlim[2]
    /\ px.latitude > ylim[1]
    /\ px.latitude < ylim[2]
    /\ px.time >= startdate
    /\ px.time <= enddate

\* the condition of filter_tropomi
TropomiKeep(px) ==
    /\ InBounds(px)
    /\ Le(QaThreshold, px.qa_value)
    /\ Ptp(px.longitude_bounds) < AntimeridianSpread

BlendedKeepWithQA(px) ==
    /\ TropomiKeep(px)
    /\ ~( \/ px.surface_classification = Coastal
          \/ ( /\ px.surface_classification = InlandWater
               /\ px.chi_square_SWIR > ChiSquareLimit ) )

\* the condition of filter_blended
BlendedKeep(px) ==
    /\ InBounds(px)
    /\ Ptp(px.longitude_bounds) < AntimeridianSpread
    /\ ~( \/ px.surface_classification = Coastal
          \/ ( /\ px.surface_classification = InlandWater
               /\ px.chi_square_SWIR > ChiSquareLimit ) )

\* numpy.where over a boolean array: the positions that hold True, ascending
RECURSIVE WhereFrom(_, _)
WhereFrom(flags, k) ==
    IF k > Len(flags) THEN << >>
    ELSE (IF flags[k] THEN << k >> ELSE << >>) \o WhereFrom(flags, k + 1)

Where(flags) == WhereFrom(flags, 1)

filter_tropomi(tropomi_data) ==
    Where([i \in DOMAIN tropomi_data |-> TropomiKeep(tropomi_data[i])])

filter_blended(blended_data) ==
    Where([i \in DOMAIN blended_data |-> BlendedKeep(blended_data[i])])

FilterInit == f_pc = "start" /\ swath \in Swaths /\ indices = << >>

FilterTropomi ==
    /\ f_pc = "start"
    /\ indices' = filter_tropomi(swath)
    /\ f_pc' = "tropomi"
    /\ UNCHANGED << swath, prepVars, sumVars, obsVars >>

FilterBlended ==
    /\ f_pc = "start"
    /\ indices' = filter_blended(swath)
    /\ f_pc' = "blended"
    /\ UNCHANGED << swath, prepVars, sumVars, obsVars >>

InitFilter == PrepIdle /\ SumIdle /\ FilterInit /\ ObsIdle

NextFilter == FilterTropomi \/ FilterBlended

SpecFilter == InitFilter /\ [][NextFilter]_vars

Range(q) == { q[i] : i \in DOMAIN q }

Ascending(q) == \A i, j \in DOMAIN q : i < j => q[i] < q[j]

\* C7 (as claimed): filter_tropomi returns the indices of exactly the pixels
\* within the lat/lon bounds and the time bounds that have qa_value strictly
\* greater than 0.5 and a spread of longitude_bounds below 100.
C7_TropomiQAStrictlyAbove ==
    f_pc = "tropomi" =>
        Range(indices) =
            { i \in DOMAIN swath :
                /\ swath[i].longitude > xlim[1] /\ swath[i].longitude < xlim[2]
                /\ swath[i].latitude > ylim[1] /\ swath[i].latitude < ylim[2]
                /\ swath[i].time >= startdate /\ swath[i].time <= enddate
                /\ swath[i].qa_value # Rat(1, 2) /\ Le(Rat(1, 2), swath[i].qa_value)
                /\ MaxOf(swath[i].longitude_bounds)
                     - MinOf(swath[i].longitude_bounds) < 100 }

\* C8: filter_blended returns the indices of exactly the pixels within the
\* lat/lon/time bounds that do not cross the antimeridian, without the
\* coastal pixels (classification 3) and the inland water pixels
\* (classification 2) with chi_square_SWIR > 20000; inland water with
\* chi_square_SWIR <= 20000 and every other classification is kept, and no
\* qa_value threshold is applied.
C8_BlendedSurfaceFilter ==
    f_pc = "blended" =>
        /\ Ascending(indices)
        /\ Range(indices) =
            { i \in DOMAIN swath :
                /\ swath[i].longitude > xlim[1] /\ swath[i].longitude < xlim[2]
                /\ swath[i].latitude > ylim[1] /\ swath[i].latitude < ylim[2]
                /\ swath[i].time >= startdate /\ swath[i].time <= enddate
                /\ MaxOf(swath[i].longitude_bounds)
                     - MinOf(swath[i].longitude_bounds) < 100
                /\ swath[i].surface_classification # 3
                /\ swath[i].surface_classification = 2
                     => swath[i].chi_square_SWIR <= 20000 }
        /\ indices = filter_blended([i \in DOMAIN swath |->
                                       [swath[i] EXCEPT !.qa_value = R(0)]])

\* a poor-fit inland water pixel is dropped and a pixel with qa_value 0.4 kept
C8_Witness ==
    /\ f_pc = "blended"
    /\ Len(swath) = 2
    /\ swath[1].surface_classification = 2 /\ swath[1].chi_square_SWIR > 20000
    /\ swath[2].qa_value = Rat(2, 5)
    /\ indices = << 2 >>

----------------------------------------------------------------------------
(* filter_obs_with_mask and count_obs_in_mask *)

\* most rows of a dataframe
MaxRows == 2

\* mask["lat"] and mask["lon"]
reference_lat_grid == << 0, 2 >>

reference_lon_grid == << 0, 2 >>

\* boolean masks over the reference grid, indexed [lat][lon]
Masks == [DOMAIN reference_lat_grid -> [DOMAIN reference_lon_grid -> BOOLEAN]]

\* a row: its index label and its coordinates.  Labels may repeat (a
\* dataframe concatenated from several files keeps the labels of each file).
Rows == [ index : 0..(MaxRows - 1), lat : { -1, 1, 2 }, lon : { 0, 2 } ]

Frames == UNION { [1..n -> Rows] : n \in 0..MaxRows }

\* np.abs(grid - q).argmin(): the first position of the smallest distance
RECURSIVE ArgMinFrom(_, _, _, _)
ArgMinFrom(grid, q, k, best) ==
    IF k > Len(grid) THEN best
    ELSE ArgMinFrom(grid, q, k + 1,
                    IF Abs(grid[k] - q) < Abs(grid[best] - q) THEN k ELSE best)

ArgMinAbs(grid, q) == ArgMinFrom(grid, q, 2, 1)

\* the positions k with mask[ref_lat_ind, ref_lon_ind] == 0
BadInd(m, d) ==
    { k \in DOMAIN d :
        ~m[ArgMinAbs(reference_lat_grid, d[k].lat)]
          [ArgMinAbs(reference_lon_grid, d[k].lon)] }

\* df.copy().drop(df.index[bad_ind]): drop removes every row that carries one
\* of the given index labels
filter_obs_with_mask(m, d) ==
    LET labels == { d[k].index : k \in BadInd(m, d) }
    IN  SelectSeq(d, LAMBDA r : r.index \notin labels)

count_obs_in_mask(m, d) == Len(filter_obs_with_mask(m, d))

ObsInit ==
    /\ o_pc = "start"
    /\ obs_mask \in Masks
    /\ df_in \in Frames
    /\ df = df_in
    /\ df_filtered = << >> /\ n_obs = 0

FilterObs ==
    /\ o_pc = "start"
    /\ df_filtered' = filter_obs_with_mask(obs_mask, df)
    /\ o_pc' = "filtered"
    /\ UNCHANGED << obs_mask, df_in, df, n_obs, prepVars, sumVars, filterVars >>

CountObs ==
    /\ o_pc = "start"
    /\ n_obs' = count_obs_in_mask(obs_mask, df)
    /\ o_pc' = "counted"
    /\ UNCHANGED << obs_mask, df_in, df, df_filtered, prepVars, sumVars, filterVars >>

InitObs == PrepIdle /\ SumIdle /\ FilterIdle /\ ObsInit

NextObs == FilterObs \/ CountObs

SpecObs == InitObs /\ [][NextObs]_vars

\* the nearest grid coordinate (the first one when two are equally near)
Nearest(grid, q) ==
    CHOOSE i \in DOMAIN grid :
        /\ \A j \in DOMAIN grid : Abs(grid[i] - q) <= Abs(grid[j] - q)
        /\ \A j \in DOMAIN grid : Abs(grid[j] - q) = Abs(grid[i] - q) => i <= j

\* the observation lies within the mask
InMask(r) ==
    obs_mask[Nearest(reference_lat_grid, r.lat)][Nearest(reference_lon_grid, r.lon)]

\* C9 (as claimed): filter_obs_with_mask returns exactly the rows of df, in
\* their order, whose nearest grid cell has a non-zero mask value, for every
\* dataframe, also one whose index labels repeat; df is left unchanged, and
\* count_obs_in_mask returns the number of those rows.
C9_KeepsExactlyRowsInMask ==
    /\ o_pc = "filtered" => df_filtered = SelectSeq(df_in, InMask) /\ df = df_in
    /\ o_pc = "counted" => n_obs = Len(SelectSeq(df_in, InMask)) /\ df = df_in

UniqueIndex(d) == \A i, j \in DOMAIN d : d[i].index = d[j].index => i = j

\* the same statement for dataframes whose index labels are unique
ObsFilterOnUniqueIndex == UniqueIndex(df_in) => C9_KeepsExactlyRowsInMask

====
